---- MODULE Spec2Model ----
(***************************************************************************)
(* Kannada <-> English interpreter (src/app.js): the capture session       *)
(* controller around the continuous speech recognizer, the transcript      *)
(* accumulation in recognition.onresult, the two-provider translation      *)
(* cascade and the playback of the Kannada reply.                          *)
(*                                                                         *)
(* Text is a sequence of one-character strings.  A message shown in the    *)
(* error line is a sequence of string parts (<<>> is "").  The status line *)
(* (setStatus) is display only, is never read back by the program, and is  *)
(* left out of the state.                                                  *)
(***************************************************************************)
EXTENDS Integers, Sequences, FiniteSets, TLC

VARIABLES
    hasSTT,            \* window has (webkit)SpeechRecognition
    hasTTS,            \* window has speechSynthesis
    listening,         \* let listening
    manualStop,        \* let manualStop
    reachedMax,        \* let reachedMax
    btnStartDisabled,  \* btnStart.disabled
    btnStopDisabled,   \* btnStop.disabled
    btnSpeakAgainDisabled, \* btnSpeakAgain.disabled
    btnCopyDisabled,   \* btnCopy.disabled
    knHeard,           \* knHeard.value
    enMeaning,         \* enMeaning.value
    myReplyEn,         \* myReplyEn.value
    knReply,           \* knReply.value
    errorLine,         \* errorLine.textContent
    rec,               \* the recognizer: "inactive", "active", "stopping", "ending"
    results,           \* e.results of the running recognition
    resultIndex,       \* e.resultIndex of the last result event
    calls,             \* the translate() calls in flight
    synth,             \* speechSynthesis: the utterance speaking, then the queued ones
    cancelled,         \* utterances removed by cancel() whose end/error event is due
    lastOp,            \* the handler that ran last
    recCalls,          \* recognition.start()/stop() calls made by that handler
    ttsCalls,          \* speechSynthesis calls made by that handler
    fetches,           \* provider requests sent by that handler
    finals,            \* the results finalized by the recognizer in this session
    voices,            \* speechSynthesis.getVoices(): the lang tag of each voice
    picked             \* what the last pickKannadaVoice() returned: an index into
                       \* voices, 0 for null

captureVars == <<listening, manualStop, reachedMax, btnStartDisabled, btnStopDisabled,
                 knHeard, errorLine, rec, results, resultIndex,
                 recCalls, finals>>
fieldVars == <<enMeaning, myReplyEn, knReply, btnSpeakAgainDisabled, btnCopyDisabled>>
replyVars == <<calls, synth, cancelled, ttsCalls, fetches>>
voiceVars == <<voices, picked>>
vars == <<hasSTT, hasTTS, captureVars, fieldVars, replyVars, voiceVars, lastOp>>

----------------------------------------------------------------------------
(* Bounds *)

\* result events are delivered while the transcript is at most this long
MaxHeard == 6
\* the recognizer holds at most this many results between two starts
MaxResults == 2
\* a result event carries at most this many new results
MaxBatch == 2
\* the same two bounds in the whole-session specification
SessionMaxHeard == 0
SessionMaxResults == 1
\* translate() calls in flight at a time
MaxCalls == 1
\* cancelled utterances whose event is still due
MaxCancelled == 1
\* voices in the catalog getVoices() returns
MaxVoices == 3

----------------------------------------------------------------------------
(* Text *)

EmptyText == <<>>

Whitespace == {" "}

\* String.prototype.trim
LeadingSpaces(t) ==
    IF \A i \in 1..Len(t) : t[i] \in Whitespace THEN Len(t)
    ELSE (CHOOSE i \in 1..Len(t) :
              t[i] \notin Whitespace /\ \A j \in 1..(i - 1) : t[j] \in Whitespace) - 1

TrailingSpaces(t) ==
    IF \A i \in 1..Len(t) : t[i] \in Whitespace THEN Len(t)
    ELSE Len(t) - (CHOOSE i \in 1..Len(t) :
              t[i] \notin Whitespace /\ \A j \in (i + 1)..Len(t) : t[j] \in Whitespace)

trim(t) ==
    IF LeadingSpaces(t) = Len(t) THEN EmptyText
    ELSE SubSeq(t, LeadingSpaces(t) + 1, Len(t) - TrailingSpaces(t))

\* the characters of the pattern in sentenceCount: . ! ? U+2026 (ellipsis) and
\* U+0964 (danda); the two non-ASCII characters are written by name
Terminators == {".", "!", "?", "ELLIPSIS", "DANDA"}

MAX_SENTENCES == 5

sentenceCount(t) == Cardinality({i \in 1..Len(t) : t[i] \in Terminators})

\* the auto-stop test: sentenceCount(combined) >= MAX_SENTENCES
LimitExceeded(t) == sentenceCount(t) > MAX_SENTENCES
LimitReached(t) == sentenceCount(t) >= MAX_SENTENCES

\* the transcripts the recognizer reports
Fragments == { <<"a">>, <<" ", "b", "DANDA">>, <<"c", "?", "d", "!", "ELLIPSIS">> }

\* the transcripts the recognizer reports in the whole-session specification
SessionFragments == { <<"a">>, <<"c", "?", "d", "!", "ELLIPSIS">> }

\* SpeechRecognitionResult: results[i][0].transcript and results[i].isFinal
RecResult == [transcript : Fragments, isFinal : BOOLEAN]

----------------------------------------------------------------------------
(* Messages *)

NoMsg == <<>>
MsgUnsupported == <<"Speech recognition not supported. Use Chrome.">>
MsgStartFailed == <<"Could not start mic. Allow mic permission and retry.">>
ErrorCodes == {"no-speech"}
MsgRecError(code) == <<"Speech recognition error: ", code>>
MsgNoKannada == <<"No Kannada captured. Try again.">>
MsgTypeReply == <<"Type your reply in English first.">>
MsgTranslationFailed == <<"Translation failed. Please retry.">>
MsgSpeechFailedCopy == <<"Speech failed. You can still copy the Kannada text.">>
MsgSpeechFailed == <<"Speech failed.">>

----------------------------------------------------------------------------
(* The recognizer (SpeechRecognition, continuous, interimResults) *)

\* a stop() that never reaches the recognizer
RecAfterLostStop(r) == r

\* recognition.stop(): an active recognizer stops capturing and will still
\* deliver what it heard before it ends; otherwise nothing happens
RecAfterStop(r) == IF r = "active" THEN "stopping" ELSE r

\* recognition.start() throws when the recognizer has not ended yet
StartMustThrow(r) == r # "inactive"

\* function setListening(on)
setListening(on) ==
    /\ listening' = on
    /\ btnStartDisabled' = on
    /\ btnStopDisabled' = ~on

----------------------------------------------------------------------------
(* recognition.onresult *)

RECURSIVE FinalText(_), InterimText(_)
\* let final: the transcripts of the final results of the batch
FinalText(batch) ==
    IF batch = <<>> THEN EmptyText
    ELSE (IF Head(batch).isFinal THEN Head(batch).transcript ELSE EmptyText)
             \o FinalText(Tail(batch))

\* let interim: the transcripts of the interim results, each followed by " "
InterimText(batch) ==
    IF batch = <<>> THEN EmptyText
    ELSE (IF Head(batch).isFinal THEN EmptyText ELSE Head(batch).transcript \o <<" ">>)
             \o InterimText(Tail(batch))

\* e.results[e.resultIndex .. e.results.length - 1]
Batch(res, idx) == SubSeq(res, idx, Len(res))

\* combined without the existing text
CombinedOverwriting(heard, batch) ==
    LET final == FinalText(batch)
        interim == InterimText(batch)
    IN trim(IF final # EmptyText THEN final ELSE interim)

\* const combined = (existing + (final || interim)).trim()
Combined(heard, batch) ==
    LET existing == IF heard # EmptyText THEN heard \o <<" ">> ELSE EmptyText
        final == FinalText(batch)
        interim == InterimText(batch)
    IN trim(existing \o (IF final # EmptyText THEN final ELSE interim))

\* the body of recognition.onresult for the event (res, idx)
OnResult(res, idx) ==
    LET combined == Combined(knHeard, Batch(res, idx)) IN
    /\ knHeard' = combined
    /\ IF LimitReached(combined)
       THEN /\ reachedMax' = TRUE
            /\ rec' = RecAfterStop(rec)
            /\ recCalls' = <<"stop">>
            /\ listening' = FALSE
            /\ btnStartDisabled' = FALSE
            /\ btnStopDisabled' = TRUE
       ELSE /\ recCalls' = <<>>
            /\ UNCHANGED <<reachedMax, rec, listening, btnStartDisabled,
                           btnStopDisabled>>
    /\ ttsCalls' = <<>>
    /\ fetches' = <<>>
    /\ UNCHANGED <<manualStop, errorLine, fieldVars, hasSTT, hasTTS, calls, synth, cancelled>>

\* the finals of a batch, in recognizer order
FinalsOf(batch) == SelectSeq(batch, LAMBDA r : r.isFinal)

\* the index of the first result the recognizer may still revise
FirstOpen(res) ==
    IF \A i \in 1..Len(res) : res[i].isFinal THEN Len(res) + 1
    ELSE CHOOSE i \in 1..Len(res) : ~res[i].isFinal /\ \A j \in 1..(i - 1) : res[j].isFinal

\* finals first, then the interim tail
WellFormed(res) ==
    \A i \in 1..Len(res) : \A j \in 1..Len(res) : (i < j /\ res[j].isFinal) => res[i].isFinal

\* the new results of one event
BatchesOf(fragments, maxBatch) ==
    UNION {[1..n -> [transcript : fragments, isFinal : BOOLEAN]] : n \in 1..maxBatch}

\* The recognizer reports new or revised results: everything from the first
\* open result on is replaced by the batch, and resultIndex points at it.
ResultEvent(batches, maxResults, maxHeard) ==
    /\ rec \in {"active", "stopping"}
    /\ Len(knHeard) <= maxHeard
    /\ \E idx \in FirstOpen(results)..(Len(results) + 1), batch \in batches :
          LET res == SubSeq(results, 1, idx - 1) \o batch IN
          /\ Len(res) <= maxResults
          /\ WellFormed(res)
          /\ results' = res
          /\ resultIndex' = idx
          /\ finals' = finals \o FinalsOf(batch)
          /\ OnResult(res, idx)
    /\ lastOp' = "onresult"
    /\ UNCHANGED voiceVars

\* The recognizer delivers its last result event a second time.
DuplicateResultEvent(maxHeard) ==
    /\ rec \in {"active", "stopping"}
    /\ Len(knHeard) <= maxHeard
    /\ resultIndex \in 1..Len(results)
    /\ OnResult(results, resultIndex)
    /\ UNCHANGED <<results, resultIndex, finals>>
    /\ lastOp' = "onresult"
    /\ UNCHANGED voiceVars

\* result events of the capture specification
RecognizerResult == ResultEvent(BatchesOf(Fragments, MaxBatch), MaxResults, MaxHeard)
RecognizerDuplicateResult == DuplicateResultEvent(MaxHeard)

\* result events of the whole-session specification: one final result at a time
SessionResult ==
    ResultEvent([1..1 -> [transcript : SessionFragments, isFinal : {TRUE}]],
                SessionMaxResults, SessionMaxHeard)

----------------------------------------------------------------------------
(* recognition.onerror, recognition.onend *)

\* recognition.onerror without setListening(false)
RecognizerErrorStillListening ==
    /\ rec \in {"active", "stopping"}
    /\ \E code \in ErrorCodes : errorLine' = MsgRecError(code)
    /\ rec' = "ending"
    /\ recCalls' = <<>>
    /\ lastOp' = "onerror"
    /\ UNCHANGED voiceVars
    /\ UNCHANGED <<listening, btnStartDisabled, btnStopDisabled,
                   manualStop, reachedMax, knHeard, results, resultIndex, finals,
                   fieldVars, hasSTT, hasTTS, calls, synth, cancelled>>
    /\ ttsCalls' = <<>>
    /\ fetches' = <<>>

\* The recognizer reports an error and stops capturing; its end event follows.
RecognizerError ==
    /\ rec \in {"active", "stopping"}
    /\ \E code \in ErrorCodes : errorLine' = MsgRecError(code)
    /\ rec' = "ending"
    /\ setListening(FALSE)
    /\ recCalls' = <<>>
    /\ lastOp' = "onerror"
    /\ UNCHANGED voiceVars
    /\ UNCHANGED <<manualStop, reachedMax, knHeard, results, resultIndex, finals,
                   fieldVars, hasSTT, hasTTS, calls, synth, cancelled>>
    /\ ttsCalls' = <<>>
    /\ fetches' = <<>>

\* the auto-restart test of recognition.onend
RestartIgnoringStop(l, m, r) == l /\ ~r
ShouldRestart(l, m, r) == l /\ ~m /\ ~r

\* The recognizer ends (after stop, after an error, or by itself on silence);
\* the handler restarts it unless the user stopped or the limit was reached.
RecognizerEnd ==
    /\ rec # "inactive"
    /\ IF ShouldRestart(listening, manualStop, reachedMax)
       THEN /\ recCalls' = <<"start">>
            /\ \/ rec' = "active"       \* recognition.start() succeeded
               \/ rec' = "inactive"     \* it threw: catch {}
       ELSE /\ recCalls' = <<>>
            /\ rec' = "inactive"
    /\ results' = <<>>
    /\ resultIndex' = 0
    /\ lastOp' = "onend"
    /\ UNCHANGED voiceVars
    /\ UNCHANGED <<listening, manualStop, reachedMax, btnStartDisabled, btnStopDisabled,
                   knHeard, errorLine, finals, fieldVars, hasSTT, hasTTS,
                   calls, synth, cancelled>>
    /\ ttsCalls' = <<>>
    /\ fetches' = <<>>

----------------------------------------------------------------------------
(* Buttons *)

\* the try block of the btnStart handler, with setListening(true) moved
\* in front of recognition.start()
TryStartListeningFirst ==
    /\ recCalls' = <<"start">>
    /\ setListening(TRUE)
    /\ \/ /\ ~StartMustThrow(rec)
          /\ rec' = "active"
          /\ errorLine' = NoMsg
       \/ /\ rec' = rec
          /\ errorLine' = MsgStartFailed

\* the try block of the btnStart handler
TryStart ==
    /\ recCalls' = <<"start">>
    /\ \/ /\ ~StartMustThrow(rec)      \* recognition.start() succeeded
          /\ rec' = "active"
          /\ errorLine' = NoMsg
          /\ setListening(TRUE)
       \/ /\ rec' = rec                \* it threw
          /\ errorLine' = MsgStartFailed
          /\ UNCHANGED <<listening, btnStartDisabled, btnStopDisabled>>

\* the btnStart handler clearing the session before it checks hasSTT()
StartClearingFirst ==
    /\ ~btnStartDisabled
    /\ lastOp' = "start"
    /\ UNCHANGED voiceVars
    /\ ttsCalls' = <<>>
    /\ fetches' = <<>>
    /\ UNCHANGED <<hasSTT, hasTTS, results, resultIndex, calls, synth, cancelled>>
    /\ manualStop' = FALSE
    /\ reachedMax' = FALSE
    /\ knHeard' = EmptyText
    /\ enMeaning' = EmptyText
    /\ myReplyEn' = EmptyText
    /\ knReply' = EmptyText
    /\ btnSpeakAgainDisabled' = TRUE
    /\ btnCopyDisabled' = TRUE
    /\ finals' = <<>>
    /\ IF ~hasSTT
       THEN /\ errorLine' = MsgUnsupported
            /\ recCalls' = <<>>
            /\ UNCHANGED <<listening, btnStartDisabled, btnStopDisabled, rec>>
       ELSE TryStart

\* btnStart click
Start ==
    /\ ~btnStartDisabled
    /\ lastOp' = "start"
    /\ UNCHANGED voiceVars
    /\ ttsCalls' = <<>>
    /\ fetches' = <<>>
    /\ UNCHANGED <<hasSTT, hasTTS, results, resultIndex, calls, synth, cancelled>>
    /\ IF ~hasSTT
       THEN /\ errorLine' = MsgUnsupported
            /\ recCalls' = <<>>
            /\ UNCHANGED <<listening, manualStop, reachedMax, btnStartDisabled,
                           btnStopDisabled, knHeard, rec, finals, fieldVars>>
       ELSE /\ manualStop' = FALSE
            /\ reachedMax' = FALSE
            /\ knHeard' = EmptyText
            /\ enMeaning' = EmptyText
            /\ myReplyEn' = EmptyText
            /\ knReply' = EmptyText
            /\ btnSpeakAgainDisabled' = TRUE
            /\ btnCopyDisabled' = TRUE
            /\ finals' = <<>>
            /\ TryStart

\* btnStop click
Stop ==
    /\ ~btnStopDisabled
    /\ manualStop' = TRUE
    /\ rec' = RecAfterStop(rec)
    /\ recCalls' = <<"stop">>
    /\ listening' = FALSE
    /\ btnStartDisabled' = FALSE
    /\ btnStopDisabled' = TRUE
    /\ lastOp' = "stop"
    /\ UNCHANGED voiceVars
    /\ UNCHANGED <<reachedMax, knHeard, errorLine, results, resultIndex, finals,
                   fieldVars, hasSTT, hasTTS, calls, synth, cancelled>>
    /\ ttsCalls' = <<>>
    /\ fetches' = <<>>

\* btnReset click
Reset ==
    /\ manualStop' = TRUE
    /\ rec' = RecAfterStop(rec)
    /\ recCalls' = <<"stop">>
    /\ knHeard' = EmptyText
    /\ enMeaning' = EmptyText
    /\ myReplyEn' = EmptyText
    /\ knReply' = EmptyText
    /\ errorLine' = NoMsg
    /\ btnSpeakAgainDisabled' = TRUE
    /\ btnCopyDisabled' = TRUE
    /\ finals' = <<>>
    /\ lastOp' = "reset"
    /\ UNCHANGED voiceVars
    /\ UNCHANGED <<listening, reachedMax, btnStartDisabled, btnStopDisabled,
                   results, resultIndex, hasSTT, hasTTS, synth, cancelled>>
    /\ calls' = [i \in 1..Len(calls) |-> [calls[i] EXCEPT !.resetSince = TRUE]]
    /\ ttsCalls' = <<>>
    /\ fetches' = <<>>

----------------------------------------------------------------------------
(* Translation backends *)

\* what the user types into the English reply box
ReplyTexts == { <<" ">>, <<" ", "o", "k">> }

\* the texts a provider returns
ProviderTexts == { <<"x">>, <<"y">> }

\* What a provider request comes back with:
\*   "neterror"   fetch rejects
\*   "http-error" a response with res.ok false
\*   "bad-json"   res.json() rejects (the body is not JSON)
\*   "json"       a JSON body: null ("null"), {translatedText} ("flat"),
\*                {responseData: {translatedText}} ("nested") or an object
\*                with neither ("other"); text is the translatedText
Responses ==
    [kind : {"neterror", "http-error", "bad-json"}, shape : {"none"}, text : {EmptyText}]
        \cup [kind : {"json"}, shape : {"null", "other"}, text : {EmptyText}]
        \cup [kind : {"json"}, shape : {"flat", "nested"}, text : ProviderTexts \cup {EmptyText}]

Threw == [ok |-> FALSE, text |-> EmptyText]
Returned(t) == [ok |-> TRUE, text |-> t]

\* translateViaLibre without the check of data.translatedText
translateViaLibreUnchecked(resp) ==
    IF resp.kind # "json" THEN Threw
    ELSE Returned(resp.text)

\* async function translateViaLibre: the outcome for a response
translateViaLibre(resp) ==
    IF resp.kind # "json" THEN Threw
    ELSE IF resp.shape # "flat" \/ resp.text = EmptyText THEN Threw
    ELSE Returned(resp.text)

\* async function translateViaMyMemory: the outcome for a response
translateViaMyMemory(resp) ==
    IF resp.kind # "json" THEN Threw
    ELSE IF resp.shape # "nested" \/ resp.text = EmptyText THEN Threw
    ELSE Returned(resp.text)

\* the request a provider is sent for a call
Fetch(provider, call) ==
    [provider |-> provider, q |-> call.q, source |-> call.source, target |-> call.target]

\* translate({q, source, target}) is called: the primary request goes out
translate(q, source, target) ==
    LET call == [q |-> q, source |-> source, target |-> target,
                 provider |-> "libre", resetSince |-> FALSE]
    IN /\ calls' = Append(calls, call)
       /\ fetches' = <<Fetch("libre", call)>>

RemoveAt(seq, i) == SubSeq(seq, 1, i - 1) \o SubSeq(seq, i + 1, Len(seq))

----------------------------------------------------------------------------
(* Text-to-Speech *)

\* the voices a browser may offer, by lang tag; <<>> is a voice without one
VoiceTags ==
    { <<"k","n","-","I","N">>, <<"K","N","-","i","n">>, <<"k","n">>,
      <<"e","n","-","I","N">>, <<"e","n","-","U","S">>, <<>> }

Catalogs == UNION { [1..n -> VoiceTags] : n \in 0..MaxVoices }

\* String.prototype.toLowerCase on the letters of the tags
LowerCaseOf(c) ==
    CASE c = "K" -> "k" [] c = "N" -> "n" [] c = "I" -> "i"
      [] c = "E" -> "e" [] c = "U" -> "u" [] c = "S" -> "s"
      [] OTHER -> c

toLowerCase(s) == [i \in 1..Len(s) |-> LowerCaseOf(s[i])]

\* String.prototype.startsWith
startsWith(s, p) == Len(s) >= Len(p) /\ SubSeq(s, 1, Len(p)) = p

\* String.prototype.includes
includes(s, p) == \E i \in 1..(Len(s) - Len(p) + 1) : SubSeq(s, i, i + Len(p) - 1) = p

\* Array.prototype.find over the indices that satisfy the test: the first, or 0
find(matching) ==
    IF matching = {} THEN 0
    ELSE CHOOSE i \in matching : \A j \in matching : i <= j

\* pickKannadaVoice comparing the tags as they are, without toLowerCase
pickKannadaVoiceCaseSensitive(vs) ==
    LET byLang(l) == find({i \in 1..Len(vs) : vs[i] = l})
        exact == byLang(<<"k","n","-","i","n">>)
        prefix == find({i \in 1..Len(vs) : startsWith(vs[i], <<"k","n">>)})
        fallback == find({i \in 1..Len(vs) : includes(vs[i], <<"e","n","-","i","n">>)})
    IN IF exact # 0 THEN exact
       ELSE IF prefix # 0 THEN prefix
       ELSE IF fallback # 0 THEN fallback
       ELSE IF Len(vs) > 0 THEN 1
       ELSE 0

\* function pickKannadaVoice, over the catalog getVoices() returns
pickKannadaVoice(vs) ==
    LET lang(i) == toLowerCase(vs[i])
        byLang(l) == find({i \in 1..Len(vs) : lang(i) = l})
        exact == byLang(<<"k","n","-","i","n">>)
        prefix == find({i \in 1..Len(vs) : startsWith(lang(i), <<"k","n">>)})
        fallback == find({i \in 1..Len(vs) : includes(lang(i), <<"e","n","-","i","n">>)})
    IN IF exact # 0 THEN exact
       ELSE IF prefix # 0 THEN prefix
       ELSE IF fallback # 0 THEN fallback
       ELSE IF Len(vs) > 0 THEN 1
       ELSE 0

\* u.lang = voice?.lang || "kn-IN"
UtteranceLang(vs, v) ==
    IF v # 0 /\ vs[v] # <<>> THEN vs[v] ELSE <<"k","n","-","I","N">>

\* speechSynthesis.onvoiceschanged: the browser has a new catalog; the handler
\* only refreshes the TTS status text
VoicesChanged ==
    /\ hasTTS
    /\ \E vs \in Catalogs : voices' = vs
    /\ lastOp' = "voiceschanged"
    /\ recCalls' = <<>>
    /\ ttsCalls' = <<>>
    /\ fetches' = <<>>
    /\ UNCHANGED <<hasSTT, hasTTS, listening, manualStop, reachedMax, btnStartDisabled,
                   btnStopDisabled, knHeard, errorLine, rec, results, resultIndex,
                   finals, fieldVars, calls, synth, cancelled, picked>>

\* a call of pickKannadaVoice()
PickVoice ==
    /\ hasTTS
    /\ picked' = pickKannadaVoice(voices)
    /\ lastOp' = "pickVoice"
    /\ recCalls' = <<>>
    /\ ttsCalls' = <<>>
    /\ fetches' = <<>>
    /\ UNCHANGED <<hasSTT, hasTTS, listening, manualStop, reachedMax, btnStartDisabled,
                   btnStopDisabled, knHeard, errorLine, rec, results, resultIndex,
                   finals, fieldVars, calls, synth, cancelled, voices>>

\* speakKannada without speechSynthesis.cancel(): the utterance is queued
speakKannadaWithoutCancel(text, waiter) ==
    LET voice == pickKannadaVoice(voices) IN
    /\ cancelled' = cancelled
    /\ synth' = Append(synth, [text |-> text, waiter |-> waiter, voice |-> voice,
                               lang |-> UtteranceLang(voices, voice)])
    /\ ttsCalls' = <<"speak">>

\* speakKannada whose cancelled utterances never settle their promise
speakKannadaForgetting(text, waiter) ==
    LET voice == pickKannadaVoice(voices) IN
    /\ cancelled' = cancelled
    /\ synth' = <<[text |-> text, waiter |-> waiter, voice |-> voice,
                   lang |-> UtteranceLang(voices, voice)]>>
    /\ ttsCalls' = <<"cancel", "speak">>

\* speakKannada(text) with speechSynthesis present: cancel(), then speak(u)
speakKannada(text, waiter) ==
    LET voice == pickKannadaVoice(voices) IN
    /\ cancelled' = cancelled \o [i \in 1..Len(synth) |-> synth[i].waiter]
    /\ synth' = <<[text |-> text, waiter |-> waiter, voice |-> voice,
                   lang |-> UtteranceLang(voices, voice)]>>
    /\ ttsCalls' = <<"cancel", "speak">>

\* what follows the promise of speakKannada in the handler that awaits it:
\* "kn" is the btnTranslateToKn handler, "again" the btnSpeakAgain handler
AfterSpeak(waiter, resolved) ==
    IF waiter = "kn"
    THEN /\ errorLine' = IF resolved THEN errorLine ELSE MsgSpeechFailedCopy
    ELSE /\ errorLine' = IF resolved THEN errorLine ELSE MsgSpeechFailed

\* u.onend / u.onerror of the utterance being spoken
UtteranceEvent ==
    /\ synth # <<>>
    /\ \E resolved \in BOOLEAN :
          /\ AfterSpeak(Head(synth).waiter, resolved)
          /\ lastOp' = IF resolved THEN "utteranceEnd" ELSE "utteranceError"
          /\ UNCHANGED voiceVars
    /\ synth' = Tail(synth)
    /\ recCalls' = <<>>
    /\ ttsCalls' = <<>>
    /\ fetches' = <<>>
    /\ UNCHANGED <<hasSTT, hasTTS, listening, manualStop, reachedMax, btnStartDisabled,
                   btnStopDisabled, knHeard, rec, results, resultIndex, finals,
                   fieldVars, calls, cancelled>>

\* u.onend / u.onerror of an utterance that cancel() removed
CancelledUtteranceEvent ==
    /\ \E i \in 1..Len(cancelled), resolved \in BOOLEAN :
          /\ AfterSpeak(cancelled[i], resolved)
          /\ cancelled' = RemoveAt(cancelled, i)
          /\ lastOp' = IF resolved THEN "utteranceEnd" ELSE "utteranceError"
          /\ UNCHANGED voiceVars
    /\ recCalls' = <<>>
    /\ ttsCalls' = <<>>
    /\ fetches' = <<>>
    /\ UNCHANGED <<hasSTT, hasTTS, listening, manualStop, reachedMax, btnStartDisabled,
                   btnStopDisabled, knHeard, rec, results, resultIndex, finals,
                   fieldVars, calls, synth>>

\* btnSpeakAgain click
SpeakAgain ==
    /\ ~btnSpeakAgainDisabled
    /\ lastOp' = "speakAgain"
    /\ UNCHANGED voiceVars
    /\ recCalls' = <<>>
    /\ fetches' = <<>>
    /\ IF knReply = EmptyText
       THEN /\ ttsCalls' = <<>>
            /\ UNCHANGED <<errorLine, synth, cancelled>>
       ELSE IF ~hasTTS
       THEN /\ errorLine' = MsgSpeechFailed
            /\ ttsCalls' = <<>>
            /\ UNCHANGED <<synth, cancelled>>
       ELSE /\ Len(synth) + Len(cancelled) <= MaxCancelled
            /\ speakKannada(knReply, "again")
            /\ UNCHANGED errorLine
    /\ UNCHANGED <<hasSTT, hasTTS, listening, manualStop, reachedMax, btnStartDisabled,
                   btnStopDisabled, knHeard, rec, results, resultIndex,
                   finals, fieldVars, calls>>

----------------------------------------------------------------------------
(* Translate buttons *)

\* the user edits the English reply box
TypeReply ==
    /\ \E t \in ReplyTexts : myReplyEn' = t
    /\ lastOp' = "input"
    /\ UNCHANGED voiceVars
    /\ recCalls' = <<>>
    /\ ttsCalls' = <<>>
    /\ fetches' = <<>>
    /\ UNCHANGED <<hasSTT, hasTTS, listening, manualStop, reachedMax, btnStartDisabled,
                   btnStopDisabled, knHeard, errorLine, rec, results,
                   resultIndex, finals, enMeaning, knReply, btnSpeakAgainDisabled,
                   btnCopyDisabled, calls, synth, cancelled>>

\* btnTranslateToEn click
TranslateToEn ==
    LET q == trim(knHeard) IN
    /\ lastOp' = "translateToEn"
    /\ UNCHANGED voiceVars
    /\ recCalls' = <<>>
    /\ ttsCalls' = <<>>
    /\ IF q = EmptyText
       THEN /\ errorLine' = MsgNoKannada
            /\ fetches' = <<>>
            /\ UNCHANGED <<calls>>
       ELSE /\ Len(calls) < MaxCalls
            /\ errorLine' = NoMsg
            /\ translate(q, "kn", "en")
    /\ UNCHANGED <<hasSTT, hasTTS, listening, manualStop, reachedMax, btnStartDisabled,
                   btnStopDisabled, knHeard, rec, results, resultIndex, finals,
                   fieldVars, synth, cancelled>>

\* the btnTranslateToKn handler without trim()
TranslateToKnUntrimmed ==
    LET q == myReplyEn IN
    /\ lastOp' = "translateToKn"
    /\ UNCHANGED voiceVars
    /\ recCalls' = <<>>
    /\ ttsCalls' = <<>>
    /\ IF q = EmptyText
       THEN /\ errorLine' = MsgTypeReply
            /\ fetches' = <<>>
            /\ UNCHANGED <<calls>>
       ELSE /\ Len(calls) < MaxCalls
            /\ errorLine' = NoMsg
            /\ translate(q, "en", "kn")
    /\ UNCHANGED <<hasSTT, hasTTS, listening, manualStop, reachedMax, btnStartDisabled,
                   btnStopDisabled, knHeard, rec, results, resultIndex, finals,
                   fieldVars, synth, cancelled>>

\* btnTranslateToKn click
TranslateToKn ==
    LET q == trim(myReplyEn) IN
    /\ lastOp' = "translateToKn"
    /\ UNCHANGED voiceVars
    /\ recCalls' = <<>>
    /\ ttsCalls' = <<>>
    /\ IF q = EmptyText
       THEN /\ errorLine' = MsgTypeReply
            /\ fetches' = <<>>
            /\ UNCHANGED <<calls>>
       ELSE /\ Len(calls) < MaxCalls
            /\ errorLine' = NoMsg
            /\ translate(q, "en", "kn")
    /\ UNCHANGED <<hasSTT, hasTTS, listening, manualStop, reachedMax, btnStartDisabled,
                   btnStopDisabled, knHeard, rec, results, resultIndex, finals,
                   fieldVars, synth, cancelled>>

\* the click handlers with speakKannada awaited before knReply.value is set
TranslatedSpeakingFirst(call, text) ==
    IF call.target = "en"
    THEN /\ enMeaning' = text
         /\ ttsCalls' = <<>>
         /\ UNCHANGED <<knReply, btnSpeakAgainDisabled, btnCopyDisabled, errorLine,
                        synth, cancelled>>
    ELSE /\ UNCHANGED enMeaning
         /\ IF ~hasTTS
            THEN /\ errorLine' = MsgSpeechFailedCopy
                 /\ ttsCalls' = <<>>
                 /\ UNCHANGED <<knReply, btnSpeakAgainDisabled, btnCopyDisabled,
                                synth, cancelled>>
            ELSE /\ Len(synth) + Len(cancelled) <= MaxCancelled
                 /\ knReply' = text
                 /\ btnSpeakAgainDisabled' = FALSE
                 /\ btnCopyDisabled' = FALSE
                 /\ speakKannada(text, "kn")
                 /\ UNCHANGED errorLine

\* translate() returned text to the click handler that awaits it
Translated(call, text) ==
    IF call.target = "en"
    THEN /\ enMeaning' = text
         /\ ttsCalls' = <<>>
         /\ UNCHANGED <<knReply, btnSpeakAgainDisabled, btnCopyDisabled, errorLine,
                        synth, cancelled>>
    ELSE /\ knReply' = text
         /\ btnSpeakAgainDisabled' = FALSE
         /\ btnCopyDisabled' = FALSE
         /\ UNCHANGED enMeaning
         /\ IF ~hasTTS
            THEN \* speakKannada rejects at once
                 /\ errorLine' = MsgSpeechFailedCopy
                 /\ ttsCalls' = <<>>
                 /\ UNCHANGED <<synth, cancelled>>
            ELSE /\ Len(synth) + Len(cancelled) <= MaxCancelled
                 /\ speakKannada(text, "kn")
                 /\ UNCHANGED errorLine

\* translate() threw to the click handler that awaits it
TranslationFailed ==
    /\ errorLine' = MsgTranslationFailed
    /\ ttsCalls' = <<>>
    /\ UNCHANGED <<enMeaning, knReply, btnSpeakAgainDisabled, btnCopyDisabled,
                   synth, cancelled>>

\* the primary provider's response to call i arrives
LibreResponds(i, resp) ==
    /\ i \in 1..Len(calls)
    /\ calls[i].provider = "libre"
    /\ lastOp' = "libreResponse"
    /\ UNCHANGED voiceVars
    /\ recCalls' = <<>>
    /\ IF translateViaLibre(resp).ok
       THEN /\ Translated(calls[i], translateViaLibre(resp).text)
            /\ calls' = RemoveAt(calls, i)
            /\ fetches' = <<>>
       ELSE \* catch (e): fall back to MyMemory with the same request
            /\ calls' = [calls EXCEPT ![i].provider = "mymemory"]
            /\ fetches' = <<Fetch("mymemory", calls[i])>>
            /\ ttsCalls' = <<>>
            /\ UNCHANGED <<enMeaning, knReply, btnSpeakAgainDisabled, btnCopyDisabled,
                           errorLine, synth, cancelled>>
    /\ UNCHANGED <<hasSTT, hasTTS, listening, manualStop, reachedMax, btnStartDisabled,
                   btnStopDisabled, knHeard, myReplyEn, rec, results, resultIndex, finals>>

\* a cascade that asks the secondary provider again when it fails
MyMemoryRespondsRetrying(i, resp) ==
    /\ i \in 1..Len(calls)
    /\ calls[i].provider = "mymemory"
    /\ lastOp' = "myMemoryResponse"
    /\ UNCHANGED voiceVars
    /\ recCalls' = <<>>
    /\ IF translateViaMyMemory(resp).ok
       THEN /\ Translated(calls[i], translateViaMyMemory(resp).text)
            /\ calls' = RemoveAt(calls, i)
            /\ fetches' = <<>>
       ELSE /\ calls' = calls
            /\ fetches' = <<Fetch("mymemory", calls[i])>>
            /\ ttsCalls' = <<>>
            /\ UNCHANGED <<enMeaning, knReply, btnSpeakAgainDisabled, btnCopyDisabled,
                           errorLine, synth, cancelled>>
    /\ UNCHANGED <<hasSTT, hasTTS, listening, manualStop, reachedMax, btnStartDisabled,
                   btnStopDisabled, knHeard, myReplyEn, rec, results, resultIndex, finals>>

\* the secondary provider's response to call i arrives
MyMemoryResponds(i, resp) ==
    /\ i \in 1..Len(calls)
    /\ calls[i].provider = "mymemory"
    /\ lastOp' = "myMemoryResponse"
    /\ UNCHANGED voiceVars
    /\ recCalls' = <<>>
    /\ fetches' = <<>>
    /\ calls' = RemoveAt(calls, i)
    /\ IF translateViaMyMemory(resp).ok
       THEN Translated(calls[i], translateViaMyMemory(resp).text)
       ELSE TranslationFailed
    /\ UNCHANGED <<hasSTT, hasTTS, listening, manualStop, reachedMax, btnStartDisabled,
                   btnStopDisabled, knHeard, myReplyEn, rec, results, resultIndex, finals>>

ProviderResponds ==
    \E i \in 1..Len(calls), resp \in Responses :
        \/ LibreResponds(i, resp)
        \/ MyMemoryResponds(i, resp)

----------------------------------------------------------------------------

\* The state after the script has run.  The buttons start as the page declares
\* them: Start enabled, Stop, Speak again and Copy disabled.
Init ==
    /\ hasSTT \in BOOLEAN
    /\ hasTTS \in BOOLEAN
    /\ listening = FALSE
    /\ manualStop = FALSE
    /\ reachedMax = FALSE
    /\ btnStartDisabled = FALSE
    /\ btnStopDisabled = TRUE
    /\ btnSpeakAgainDisabled = TRUE
    /\ btnCopyDisabled = TRUE
    /\ knHeard = EmptyText
    /\ enMeaning = EmptyText
    /\ myReplyEn = EmptyText
    /\ knReply = EmptyText
    /\ errorLine = NoMsg
    /\ rec = "inactive"
    /\ results = <<>>
    /\ resultIndex = 0
    /\ lastOp = "load"
    /\ recCalls = <<>>
    /\ finals = <<>>
    /\ calls = <<>>
    /\ synth = <<>>
    /\ cancelled = <<>>
    /\ ttsCalls = <<>>
    /\ fetches = <<>>
    /\ voices = <<>>
    /\ picked = 0

\* the capture session: the recognizer and the Start, Stop and Reset buttons
CaptureNext ==
    \/ Start
    \/ Stop
    \/ Reset
    \/ RecognizerResult
    \/ RecognizerDuplicateResult
    \/ RecognizerError
    \/ RecognizerEnd

CaptureSpec == Init /\ [][CaptureNext]_vars

\* the whole session: every handler
Next ==
    \/ Start
    \/ Stop
    \/ Reset
    \/ SessionResult
    \/ RecognizerError
    \/ RecognizerEnd
    \/ TypeReply
    \/ TranslateToEn
    \/ TranslateToKn
    \/ ProviderResponds
    \/ SpeakAgain
    \/ UtteranceEvent
    \/ CancelledUtteranceEvent

Spec == Init /\ [][Next]_vars

\* the voice selection: the browser's catalog changes and pickKannadaVoice()
\* is called on it
VoiceNext ==
    \/ VoicesChanged
    \/ PickVoice

VoiceSpec == Init /\ [][VoiceNext]_vars

----------------------------------------------------------------------------
(* Properties of the capture session (CaptureSpec) *)

\* the sentence terminators of a text, counted one character at a time
TerminatorCount(t) ==
    Len(SelectSeq(t, LAMBDA c : c \in {".", "!", "?", "ELLIPSIS", "DANDA"}))

\* a text without its blanks
StripSpaces(t) == SelectSeq(t, LAMBDA c : c # " ")

RECURSIVE Flatten(_)
\* the transcripts of a sequence of results, one after the other
Flatten(rs) == IF rs = <<>> THEN <<>> ELSE Head(rs).transcript \o Flatten(Tail(rs))

\* the new results of the last result event
LastBatch == SubSeq(results, resultIndex, Len(results))

\* C1: when the recognizer's end event is handled with listening true and
\* manualStop and reachedMax false, recognition.start() is called again, and a
\* start that throws leaves the session as it was; with manualStop or
\* reachedMax set, or listening false, start is not called.
C1_AutoRestart ==
    [][lastOp' = "onend" =>
          /\ (recCalls' = <<"start">>) <=> (listening /\ ~manualStop /\ ~reachedMax)
          /\ recCalls' \in {<<>>, <<"start">>}
          /\ rec' = "active" => recCalls' = <<"start">>
          /\ listening' = listening
          /\ manualStop' = manualStop
          /\ reachedMax' = reachedMax
          /\ errorLine' = errorLine
          /\ knHeard' = knHeard]_vars

\* the end event restarted a listening session
C1_Witness ==
    /\ lastOp = "onend"
    /\ recCalls = <<"start">>
    /\ listening
    /\ knHeard # EmptyText

\* C2: a result event handled while Listening keeps the session Listening
\* when the transcript then has fewer than 5 sentence terminators, and
\* otherwise sets reachedMax, calls recognition.stop() and leaves Listening.
C2_LimitEndsListening ==
    [][(lastOp' = "onresult" /\ listening) =>
          IF TerminatorCount(knHeard') < 5
          THEN /\ listening'
               /\ ~reachedMax'
               /\ recCalls' = <<>>
               /\ rec' = rec
          ELSE /\ ~listening'
               /\ reachedMax'
               /\ recCalls' = <<"stop">>
               /\ rec' # "active"
               /\ ~btnStartDisabled']_vars

\* two terminators kept the session listening, three more ended it
C2_Witness ==
    /\ lastOp = "onresult"
    /\ reachedMax
    /\ ~listening
    /\ recCalls = <<"stop">>
    /\ Len(finals) = 3
    /\ TerminatorCount(Flatten(SubSeq(finals, 1, 2))) = 2
    /\ TerminatorCount(finals[3].transcript) = 3
    /\ TerminatorCount(knHeard) = 5

\* C3: a result event delivered while the session is not Listening leaves
\* the transcript unchanged.
C3_NoAccumulationWhenNotListening ==
    [][(lastOp' = "onresult" /\ ~listening) => knHeard' = knHeard]_vars

\* C4: a result event whose new results are all interim leaves the
\* transcript unchanged and does not trigger the auto-stop.
C4_InterimNeverCommitted ==
    [][(lastOp' = "onresult" /\ FinalsOf(LastBatch') = <<>>) =>
          /\ knHeard' = knHeard
          /\ reachedMax' = reachedMax
          /\ listening' = listening
          /\ recCalls' = <<>>]_vars

\* C5: while Listening with no interim result outstanding, the transcript is
\* the text of the results finalized in this session, each once and in
\* recognizer order (blanks aside).
C5_FinalsOnceInOrder ==
    (listening /\ FirstOpen(results) = Len(results) + 1) =>
        StripSpaces(knHeard) = StripSpaces(Flatten(finals))

\* C6: a result event never lowers the Sentence Count of the transcript.
C6_CountMonotone ==
    [][lastOp' = "onresult" => TerminatorCount(knHeard') >= TerminatorCount(knHeard)]_vars

\* the count grew over two result events
C6_Witness ==
    /\ lastOp = "onresult"
    /\ listening
    /\ Len(finals) >= 2
    /\ TerminatorCount(knHeard) >= 2
    /\ TerminatorCount(knHeard) > TerminatorCount(finals[1].transcript)

----------------------------------------------------------------------------
(* Properties of the whole session (Spec) *)

\* the field a translate call fills (English meaning or Kannada reply), as it
\* is after the step
TargetFieldAfter(call) == IF call.target = "en" THEN enMeaning' ELSE knReply' 

\* a success status and a non-empty translated-text field where the
\* provider puts it
PrimaryAccepted(resp) == resp.kind = "json" /\ resp.shape = "flat" /\ resp.text # EmptyText
SecondaryAccepted(resp) == resp.kind = "json" /\ resp.shape = "nested" /\ resp.text # EmptyText

\* C7: an accepted primary response puts the primary's text in the target
\* field; a primary failure of any kind sends the same request to the
\* secondary and shows nothing; an accepted secondary response puts the
\* secondary's text in the target field without a translation error; when the
\* secondary fails too the target field is unchanged and the error line shows
\* the one translation-failed message.
C7_Cascade ==
    [][lastOp' \in {"libreResponse", "myMemoryResponse"} =>
       \A i \in 1..Len(calls), resp \in Responses :
          /\ LibreResponds(i, resp) =>
                IF PrimaryAccepted(resp)
                THEN /\ TargetFieldAfter(calls[i]) = resp.text
                     /\ calls' = RemoveAt(calls, i)
                     /\ errorLine' \in {errorLine, MsgSpeechFailedCopy}
                ELSE /\ calls' = [calls EXCEPT ![i].provider = "mymemory"]
                     /\ fetches' = <<[provider |-> "mymemory", q |-> calls[i].q,
                                      source |-> calls[i].source, target |-> calls[i].target]>>
                     /\ UNCHANGED <<enMeaning, knReply, errorLine>>
          /\ MyMemoryResponds(i, resp) =>
                /\ calls' = RemoveAt(calls, i)
                /\ IF SecondaryAccepted(resp)
                   THEN /\ TargetFieldAfter(calls[i]) = resp.text
                        /\ errorLine' \in {errorLine, MsgSpeechFailedCopy}
                   ELSE /\ UNCHANGED <<enMeaning, knReply, btnSpeakAgainDisabled,
                                       btnCopyDisabled, synth>>
                        /\ ttsCalls' = <<>>
                        /\ errorLine' = MsgTranslationFailed]_vars

\* the secondary provider's text arrived after the primary failed
C7_Witness ==
    /\ lastOp = "myMemoryResponse"
    /\ knReply # EmptyText
    /\ calls = <<>>
    /\ errorLine = NoMsg

\* C8: the response to a translate call that was in flight when Reset was
\* pressed changes neither the English meaning nor the Kannada reply and
\* starts no playback.
C8_StaleResponseIgnored ==
    [][lastOp' \in {"libreResponse", "myMemoryResponse"} =>
       \A i \in 1..Len(calls), resp \in Responses :
          ((LibreResponds(i, resp) \/ MyMemoryResponds(i, resp)) /\ calls[i].resetSince) =>
              /\ enMeaning' = enMeaning
              /\ knReply' = knReply
              /\ ttsCalls' = <<>>]_vars

\* C9: Reset sets manualStop, calls recognition.stop(), clears the four
\* text fields and leaves the session not listening with Start enabled.
C9_ResetReturnsToIdle ==
    [][lastOp' = "reset" =>
          /\ manualStop'
          /\ recCalls' = <<"stop">>
          /\ knHeard' = EmptyText
          /\ enMeaning' = EmptyText
          /\ myReplyEn' = EmptyText
          /\ knReply' = EmptyText
          /\ ~listening'
          /\ ~btnStartDisabled']_vars

\* C10: Start ends in one of three ways: without speech recognition the
\* unsupported message is shown and the session is not listening; when
\* recognition.start() throws the start-failure message is shown, the session
\* is not listening and Start stays enabled; otherwise the four text fields
\* are empty, manualStop and reachedMax are false and the session is listening.
C10_StartOutcomes ==
    [][lastOp' = "start" =>
          \/ /\ ~hasSTT
             /\ errorLine' = MsgUnsupported
             /\ recCalls' = <<>>
             /\ ~listening'
          \/ /\ hasSTT
             /\ errorLine' = MsgStartFailed
             /\ recCalls' = <<"start">>
             /\ rec' = rec
             /\ ~listening'
             /\ ~btnStartDisabled'
          \/ /\ hasSTT
             /\ errorLine' = NoMsg
             /\ recCalls' = <<"start">>
             /\ rec' = "active"
             /\ knHeard' = EmptyText
             /\ enMeaning' = EmptyText
             /\ myReplyEn' = EmptyText
             /\ knReply' = EmptyText
             /\ ~manualStop'
             /\ ~reachedMax'
             /\ listening']_vars

\* recognition.start() threw because the recognizer had not ended yet
C10_Witness ==
    /\ lastOp = "start"
    /\ errorLine = MsgStartFailed
    /\ ~listening
    /\ ~btnStartDisabled
    /\ rec # "inactive"

----------------------------------------------------------------------------
(* Properties of the recognizer lifecycle (CaptureSpec) *)

\* C11: the recognizer is never capturing (started and not asked to stop)
\* while the session is not listening.
C11_CapturingOnlyWhileListening == rec = "active" => listening

\* Stop was pressed while capturing: the recognizer was asked to stop
C11_Witness ==
    /\ lastOp = "stop"
    /\ recCalls = <<"stop">>
    /\ rec = "stopping"
    /\ ~listening

\* C16: a recognizer error shows the error message and leaves the session
\* not listening with Start enabled and the transcript as it was; the end
\* event that follows the error does not call recognition.start().
C16_ErrorStopsSession ==
    [][/\ lastOp' = "onerror" =>
             /\ \E code \in {"no-speech"} : errorLine' = <<"Speech recognition error: ", code>>
             /\ ~listening'
             /\ ~btnStartDisabled'
             /\ knHeard' = knHeard
             /\ recCalls' = <<>>
       /\ (lastOp' = "onend" /\ rec = "ending") =>
             /\ recCalls' = <<>>
             /\ rec' = "inactive"
             /\ ~listening'
             /\ ~btnStartDisabled']_vars

\* the end event after an error left the recognizer stopped, the transcript
\* kept and Start enabled
C16_Witness ==
    /\ lastOp = "onend"
    /\ errorLine = <<"Speech recognition error: ", "no-speech">>
    /\ rec = "inactive"
    /\ recCalls = <<>>
    /\ ~listening
    /\ ~btnStartDisabled
    /\ knHeard # EmptyText

\* C19: while listening is true the recognizer is capturing, or it is about
\* to end and the end handler will restart it.
C19_ListeningMeansCapturing ==
    listening =>
        \/ rec = "active"
        \/ rec \in {"stopping", "ending"} /\ ~manualStop /\ ~reachedMax

----------------------------------------------------------------------------
(* Properties of the playback and the translate buttons (Spec) *)

ResponseOps == {"libreResponse", "myMemoryResponse"}
UtteranceOps == {"utteranceEnd", "utteranceError"}
SpeechFailures ==
    { <<"Speech failed. You can still copy the Kannada text.">>, <<"Speech failed.">> }

\* the utterances whose end or error event has not been delivered yet
Outstanding == Len(synth) + Len(cancelled)

\* C12: the synthesis engine never holds more than one utterance, and a
\* handler that speaks calls cancel() and then speak() once, which leaves its
\* own utterance as the only one.
C12_OneUtterance ==
    /\ [](Len(synth) <= 1)
    /\ [][ttsCalls' # <<>> =>
             /\ ttsCalls' = <<"cancel", "speak">>
             /\ Len(synth') = 1
             /\ Len(cancelled') = Len(cancelled) + Len(synth)]_vars

\* a speak request replaced an utterance that was still being spoken
C12_Witness ==
    /\ lastOp = "speakAgain"
    /\ ttsCalls = <<"cancel", "speak">>
    /\ Len(synth) = 1
    /\ synth[1].waiter = "again"
    /\ cancelled # <<>>

\* C13: every speak request stays outstanding until one end or error event
\* settles it, also when a later request cancels it; an end event shows no
\* failure, an error event shows the speech failure, and neither speaks again.
C13_SettledOnce ==
    [][/\ lastOp' = "utteranceEnd" =>
             /\ Outstanding' = Outstanding - 1
             /\ errorLine' = errorLine
             /\ ttsCalls' = <<>>
       /\ lastOp' = "utteranceError" =>
             /\ Outstanding' = Outstanding - 1
             /\ errorLine' \in SpeechFailures
             /\ ttsCalls' = <<>>
       /\ lastOp' \notin UtteranceOps =>
             IF ttsCalls' # <<>>
             THEN /\ Outstanding' = Outstanding + 1
                  /\ SubSeq(cancelled', 1, Len(cancelled)) = cancelled
             ELSE synth' = synth /\ cancelled' = cancelled
       /\ (lastOp' = "speakAgain" /\ ~hasTTS /\ knReply # EmptyText) =>
             errorLine' = <<"Speech failed.">>]_vars

\* the error event of a cancelled utterance arrived while its successor is
\* being spoken
C13_Witness ==
    /\ lastOp = "utteranceError"
    /\ Len(synth) = 1
    /\ cancelled = <<>>
    /\ errorLine \in SpeechFailures

\* C14: a speech failure leaves the transcript, the translation fields and
\* the Speak again and Copy buttons as they are; when a Kannada translation
\* arrives and there is no speech synthesis, the reply field holds the
\* translation, both buttons are enabled and the speech failure is shown.
C14_SpeechFailureKeepsFields ==
    [][/\ (lastOp' = "utteranceError" \/ (lastOp' = "speakAgain" /\ ~hasTTS)) =>
             UNCHANGED <<knHeard, enMeaning, myReplyEn, knReply,
                         btnSpeakAgainDisabled, btnCopyDisabled>>
       /\ (lastOp' \in ResponseOps /\ ~hasTTS) =>
             \A i \in 1..Len(calls), resp \in Responses :
                 (/\ calls[i].target = "kn"
                  /\ \/ LibreResponds(i, resp) /\ PrimaryAccepted(resp)
                     \/ MyMemoryResponds(i, resp) /\ SecondaryAccepted(resp)) =>
                     /\ knReply' = resp.text
                     /\ ~btnSpeakAgainDisabled'
                     /\ ~btnCopyDisabled'
                     /\ errorLine' = <<"Speech failed. You can still copy the Kannada text.">>
                     /\ UNCHANGED <<knHeard, enMeaning, myReplyEn>>]_vars

\* without speech synthesis, a Kannada translation arrived and is kept
C14_Witness ==
    /\ lastOp \in ResponseOps
    /\ ~hasTTS
    /\ knReply \in ProviderTexts
    /\ ~btnSpeakAgainDisabled
    /\ ~btnCopyDisabled
    /\ errorLine = <<"Speech failed. You can still copy the Kannada text.">>

\* the request of a call, as sent to a provider
RequestTo(provider, call) ==
    [provider |-> provider, q |-> call.q, source |-> call.source, target |-> call.target]

\* C15: a handler sends at most one provider request.  A translate click
\* sends the primary request of a new call; the secondary request is sent
\* only by the step that receives a failed primary response, for the same
\* call and with the same q, source and target; a successful primary response
\* and any secondary response end the call without a further request.
C15_SequentialCascade ==
    [][/\ Len(fetches') <= 1
       /\ lastOp' \notin ResponseOps \cup {"translateToEn", "translateToKn"} =>
             /\ fetches' = <<>>
             /\ Len(calls') = Len(calls)
             /\ \A i \in 1..Len(calls) : calls'[i].provider = calls[i].provider
       /\ lastOp' \in {"translateToEn", "translateToKn"} =>
             \/ fetches' = <<>> /\ calls' = calls
             \/ /\ Len(calls') = Len(calls) + 1
                /\ SubSeq(calls', 1, Len(calls)) = calls
                /\ calls'[Len(calls')].provider = "libre"
                /\ fetches' = <<RequestTo("libre", calls'[Len(calls')])>>
       /\ lastOp' = "libreResponse" =>
             \A i \in 1..Len(calls), resp \in Responses :
                 LibreResponds(i, resp) =>
                     IF PrimaryAccepted(resp)
                     THEN fetches' = <<>> /\ calls' = RemoveAt(calls, i)
                     ELSE /\ fetches' = <<RequestTo("mymemory", calls[i])>>
                          /\ Len(calls') = Len(calls)
                          /\ calls'[i].provider = "mymemory"
       /\ lastOp' = "myMemoryResponse" =>
             /\ fetches' = <<>>
             /\ Len(calls') = Len(calls) - 1]_vars

\* the primary failed and the same request went to the secondary
C15_Witness ==
    /\ lastOp = "libreResponse"
    /\ Len(calls) = 1
    /\ calls[1].provider = "mymemory"
    /\ fetches = <<RequestTo("mymemory", calls[1])>>

\* C18: with speech synthesis present, a successful translation to Kannada
\* speaks once, the text that was put in the reply field; a translation to
\* English, a failed translation, a fallback to the secondary provider and
\* the translate clicks speak nothing, and a translate-to-Kannada click on an
\* empty or blank reply sends no provider request.
C18_SpeakOncePerKnTranslation ==
    [][/\ lastOp' \in {"translateToEn", "translateToKn"} =>
             ttsCalls' = <<>> /\ synth' = synth
       /\ (lastOp' = "translateToKn" /\ \A k \in 1..Len(myReplyEn) : myReplyEn[k] = " ") =>
             /\ fetches' = <<>>
             /\ calls' = calls
             /\ errorLine' = <<"Type your reply in English first.">>
       /\ lastOp' \in ResponseOps =>
             \A i \in 1..Len(calls), resp \in Responses :
                 (LibreResponds(i, resp) \/ MyMemoryResponds(i, resp)) =>
                     LET accepted == IF calls[i].provider = "libre"
                                     THEN PrimaryAccepted(resp)
                                     ELSE SecondaryAccepted(resp)
                     IN IF accepted /\ calls[i].target = "kn" /\ hasTTS
                        THEN /\ knReply' = resp.text
                             /\ ttsCalls' = <<"cancel", "speak">>
                             /\ Len(synth') = 1
                             /\ synth'[1].text = knReply'
                             /\ synth'[1].waiter = "kn"
                        ELSE ttsCalls' = <<>> /\ synth' = synth]_vars

\* a Kannada translation arrived and is being spoken
C18_Witness ==
    /\ lastOp \in ResponseOps
    /\ ttsCalls = <<"cancel", "speak">>
    /\ Len(synth) = 1
    /\ synth[1].waiter = "kn"
    /\ synth[1].text = knReply
    /\ knReply \in ProviderTexts

\* C20: a Start click without speech recognition changes the error line only;
\* a Start click whose recognition.start() throws has cleared the transcript
\* and the translation fields and reset manualStop and reachedMax, and leaves
\* listening and the Start and Stop buttons as they were.
C20_FailedStartFrame ==
    [][lastOp' = "start" =>
          /\ ~hasSTT =>
                /\ errorLine' = MsgUnsupported
                /\ UNCHANGED <<knHeard, enMeaning, myReplyEn, knReply, manualStop,
                               reachedMax, listening, btnStartDisabled, btnStopDisabled,
                               btnSpeakAgainDisabled, btnCopyDisabled, rec>>
          /\ (hasSTT /\ errorLine' = MsgStartFailed) =>
                /\ knHeard' = EmptyText
                /\ enMeaning' = EmptyText
                /\ myReplyEn' = EmptyText
                /\ knReply' = EmptyText
                /\ ~manualStop'
                /\ ~reachedMax'
                /\ listening' = listening
                /\ btnStartDisabled' = btnStartDisabled
                /\ btnStopDisabled' = btnStopDisabled
                /\ rec' = rec]_vars

\* Start without speech recognition, after a Reset and a new reply: the
\* reply, its translation and manualStop are kept
C20_Witness ==
    /\ lastOp = "start"
    /\ ~hasSTT
    /\ errorLine = MsgUnsupported
    /\ myReplyEn # EmptyText
    /\ knReply # EmptyText
    /\ manualStop

----------------------------------------------------------------------------
(* Properties of the voice selection (VoiceSpec) *)

EqualsIgnoringCase(s, t) ==
    /\ Len(s) = Len(t)
    /\ \A i \in 1..Len(s) : LowerCaseOf(s[i]) = LowerCaseOf(t[i])

\* the rank of a voice by its tag: 1 the target tag kn-IN, 2 a tag that
\* starts with the language code kn, 3 the fallback locale en-IN, 4 any other
VoiceRank(tag) ==
    IF EqualsIgnoringCase(tag, <<"k","n","-","I","N">>) THEN 1
    ELSE IF Len(tag) >= 2 /\ EqualsIgnoringCase(SubSeq(tag, 1, 2), <<"k","n">>) THEN 2
    ELSE IF EqualsIgnoringCase(tag, <<"e","n","-","I","N">>) THEN 3
    ELSE 4

\* C17: pickKannadaVoice returns no voice for an empty catalog, and otherwise
\* the first voice of the best rank present in the catalog (target tag, then
\* language code prefix, then fallback locale, then any voice).
C17_BestRankedVoice ==
    [][lastOp' = "pickVoice" =>
          IF voices = <<>> THEN picked' = 0
          ELSE /\ picked' \in 1..Len(voices)
               /\ \A j \in 1..Len(voices) :
                     /\ VoiceRank(voices[picked']) <= VoiceRank(voices[j])
                     /\ j < picked' => VoiceRank(voices[picked']) < VoiceRank(voices[j])]_vars

\* the target tag in another letter case is picked from the last position,
\* past a fallback-locale voice and a language-prefix voice
C17_Witness ==
    /\ lastOp = "pickVoice"
    /\ voices = << <<"e","n","-","I","N">>, <<"k","n">>, <<"K","N","-","i","n">> >>
    /\ picked = 3

====
